---- MODULE Spec2Model ----
(***************************************************************************)
(* Rumour mill (src/src/main.cpp): a mutex-guarded in-memory vector of     *)
(* rumors mirrored to one JSON file on LittleFS, request handlers that     *)
(* create/update/delete/reset rumors, and a print task that picks one      *)
(* eligible rumor per trigger signal taken from a FreeRTOS queue.          *)
(***************************************************************************)
EXTENDS Integers, Sequences, FiniteSets, TLC

\* ---------------------------------------------------------------- bounds
\* largest number of rumors the vector grows to in the model, and the largest
\* id a create assigns in it
MaxRumors == 2
\* number of trigger signals the trigger source sends in the model
MaxTriggers == 2
\* number of samples of the reed pin the trigger source takes in the model
MaxPolls == 9
\* number of times LittleFS.open(kRumorsPath, "w") fails on the mounted file
\* system, on storage that is not reliable
MaxWriteFails == 1
\* bytes of the long text the handlers are driven with
LongTextBytes == 4096

\* ------------------------------------------------------ program constants
kDefaultMaxPrints == 5
kQueueLength == 4
kReedPollMs == 50
kPrintCooldownMs == 15000
UINT16_MAX == 65535
INT32_MAX == 2147483647
\* DynamicJsonDocument doc(1024 + rumors.size() * 256)
kDocBaseBytes == 1024
kDocBytesPerRumor == 256

\* ------------------------------------------------------------------ tasks
\* the callers of the registry: request-handling contexts, the print task and
\* setup() (which runs loadRumors)
Web == {"web1", "web2"}
PrintTask == "printTask"
SetupTask == "setup"
NoTask == "none"

\* --------------------------------------------------------------- the data
\* struct Rumor with its default member initialisers
DefaultRumor ==
  [id |-> 0, title |-> "", textNl |-> "", textEn |-> "", people |-> "",
   active |-> TRUE, maxPrints |-> kDefaultMaxPrints, printedCount |-> 0]

\* a text of LongTextBytes bytes
LongText == "long"

\* request bodies (decoded JSON objects) the handlers are driven with
Payloads ==
  << [title |-> "A", text_nl |-> "an", text_en |-> "ae", people |-> "p",
      active |-> TRUE],
     [title |-> "A", text_nl |-> "an", text_en |-> "ae", people |-> "p",
      active |-> TRUE, max_prints |-> 1],
     [title |-> "A", text_nl |-> "an", text_en |-> "ae", people |-> "p",
      active |-> FALSE, max_prints |-> 0],
     [active |-> FALSE],
     [max_prints |-> 1],
     [max_prints |-> -1],
     [id |-> 2, printed_count |-> 0, active |-> TRUE],
     [title |-> "A", text_nl |-> "an", text_en |-> LongText, people |-> "p",
      active |-> TRUE] >>

\* path arguments (\d+ parsed by toInt) the handlers are driven with
PathIds == 1..MaxRumors

HasKey(obj, key) == key \in DOMAIN obj

\* ArduinoJson `variant | default` for a uint16_t: the stored number when it
\* fits the type, the default otherwise
AsUint16Or(obj, key, dflt) ==
  IF HasKey(obj, key) /\ obj[key] \in 0..UINT16_MAX THEN obj[key] ELSE dflt

\* ArduinoJson `variant | default` for an int default (`obj[key] | 0`): the
\* stored number when it is an int, the default otherwise. The numbers of a
\* document are integers from -INT32_MAX - 1 to INT32_MAX here, each of which
\* is an int of the 32-bit target; a number above INT32_MAX is no int, and a
\* document carries it under another key (see RumorToJson)
AsIntOr(obj, key, dflt) == IF HasKey(obj, key) THEN obj[key] ELSE dflt

\* the conversion of an int to uint16_t: the value modulo 2^16
ToUint16(v) == v % (UINT16_MAX + 1)

\* A uint32_t is written as the integer with the same 32 bits: the values up
\* to INT32_MAX as themselves, the values above as value - 2^32, which is
\* negative (4294967295 is written -1). The conversion of an int to uint32_t
\* keeps the 32 bits, so a negative int becomes the value above INT32_MAX
\* that is written as the same integer.
ToUint32(v) == v

\* a > b on two uint32_t: a negative integer stands for a value above
\* INT32_MAX
Uint32Gt(a, b) ==
  IF (a < 0) = (b < 0) THEN a > b ELSE a < 0

\* a + 1 on a uint32_t: 4294967295 wraps to 0, INT32_MAX goes on to 2^31
Uint32Inc(a) ==
  IF a = INT32_MAX THEN (0 - INT32_MAX) - 1 ELSE a + 1

\* ---------------------------------------------------------------- state
VARIABLES
  rumors,       \* std::vector<Rumor> rumors
  disk,         \* /rumors.json: [exists, valid, doc]
  mounted,      \* LittleFS.begin succeeded
  mutex,        \* holder of rumorsMutex, or NoTask
  setupPc,      \* position of setup()/loadRumors
  loadDoc,      \* loadRumors: the decoded document
  loadOk,       \* loadRumors: its return value
  webPc,        \* per request context: position in its handler
  webRes,       \* per request context: HTTP status being sent (0: none)
  newRumor,     \* per request context: handleCreateRumor's local Rumor rumor
  printPc,      \* position of printTask/pickRandomRumor
  eligible,     \* pickRandomRumor: std::vector<size_t> eligible
  selected,     \* printTask: Rumor selected
  queue,        \* number of signals in printQueue
  sent,         \* number of signals the trigger source has sent
  now,          \* reedTask: millis() at its latest sample
  lastState,    \* reedTask: int lastState
  lastTrigger,  \* reedTask: uint32_t lastTrigger
  polls,        \* number of samples reedTask has taken
  prevEdge,     \* history: time of the latest falling edge (-1: none yet)
  prevEnq,      \* history: that edge put a signal into the queue
  lastAccepted, \* history: time of the latest enqueued signal (-1: none yet)
  maxAssigned,  \* history: largest id handleCreateRumor has assigned
  mutated,      \* history: a registry operation has changed the vector
  writeFailsLeft \* number of opens of the file for writing that can still fail

vars == <<rumors, disk, mounted, mutex, setupPc, loadDoc, loadOk, webPc,
          webRes, newRumor, printPc, eligible, selected, queue, sent, now,
          lastState, lastTrigger, polls, prevEdge, prevEnq, lastAccepted,
          maxAssigned, mutated, writeFailsLeft>>

setupVars == <<setupPc, loadDoc, loadOk, mounted>>
webVars == <<webPc, webRes, newRumor>>
printVars == <<printPc, eligible, selected>>
reedVars == <<now, lastState, lastTrigger, polls, prevEdge, prevEnq,
              lastAccepted>>
queueVars == <<queue, sent, reedVars>>
histVars == <<maxAssigned, mutated, writeFailsLeft>>

\* ------------------------------------------------------- pure functions
RECURSIVE MaxIdFrom(_, _)
\* the loop of nextRumorId: the largest id in the vector, starting from maxId
MaxIdFrom(rs, maxId) ==
  IF rs = <<>> THEN maxId
  ELSE MaxIdFrom(Tail(rs),
                 IF Uint32Gt(Head(rs).id, maxId) THEN Head(rs).id ELSE maxId)

\* nextRumorId without the increment
nextRumorIdNoIncrement(rs) == MaxIdFrom(rs, 0)

\* nextRumorId from the size of the vector instead of its largest id
nextRumorIdBySize(rs) == Len(rs) + 1

\* uint32_t nextRumorId(): maxId + 1 on 32 bits, which is 0 after 4294967295
nextRumorId(rs) == Uint32Inc(MaxIdFrom(rs, 0))

\* the JSON object saveRumorsLocked/appendRumorJson write for one rumor. An id
\* above INT32_MAX is written as a number that is no int: the object has it
\* under the key id_above_int, and loadRumors takes its default for "id"
RumorToJson(rumor) ==
  LET fields ==
        [title |-> rumor.title, text_nl |-> rumor.textNl,
         text_en |-> rumor.textEn, people |-> rumor.people,
         active |-> rumor.active, max_prints |-> rumor.maxPrints,
         printed_count |-> rumor.printedCount]
  IN  IF rumor.id >= 0 THEN [id |-> rumor.id] @@ fields
      ELSE [id_above_int |-> rumor.id] @@ fields

\* the JSON array saveRumorsLocked serializes
Serialize(rs) == [i \in 1..Len(rs) |-> RumorToJson(rs[i])]

\* the loop body of loadRumors: one stored object to a Rumor, absent keys
\* taking the defaults of `obj[key] | default`; id and printed_count are read
\* as int (the default 0 is an int) and converted to the field's type
RumorFromJson(obj) ==
  [id |-> ToUint32(AsIntOr(obj, "id", 0)),
   title |-> IF HasKey(obj, "title") THEN obj.title ELSE "",
   textNl |-> IF HasKey(obj, "text_nl") THEN obj.text_nl ELSE "",
   textEn |-> IF HasKey(obj, "text_en") THEN obj.text_en ELSE "",
   people |-> IF HasKey(obj, "people") THEN obj.people ELSE "",
   active |-> IF HasKey(obj, "active") THEN obj.active ELSE TRUE,
   maxPrints |-> AsUint16Or(obj, "max_prints", kDefaultMaxPrints),
   printedCount |-> ToUint16(AsIntOr(obj, "printed_count", 0))]

\* the vector loadRumors builds from the decoded array
Deserialize(doc) == [i \in 1..Len(doc) |-> RumorFromJson(doc[i])]

\* the max_prints branch of parseRumorFromJson: default when not a uint16_t,
\* clamped up to 1
ParsedMaxPrints(src) ==
  LET maxPrints == AsUint16Or(src, "max_prints", kDefaultMaxPrints)
  IN  IF maxPrints < 1 THEN 1 ELSE maxPrints

\* the required keys of a create
HasRequired(src) ==
  HasKey(src, "title") /\ HasKey(src, "text_nl") /\ HasKey(src, "text_en") /\
  HasKey(src, "people") /\ HasKey(src, "active")

\* the merge that also takes id and printed_count from src
MergeFieldsWithCount(src, rumor) ==
  [id |-> IF HasKey(src, "id") THEN src.id ELSE rumor.id,
   title |-> IF HasKey(src, "title") THEN src.title ELSE rumor.title,
   textNl |-> IF HasKey(src, "text_nl") THEN src.text_nl ELSE rumor.textNl,
   textEn |-> IF HasKey(src, "text_en") THEN src.text_en ELSE rumor.textEn,
   people |-> IF HasKey(src, "people") THEN src.people ELSE rumor.people,
   active |-> IF HasKey(src, "active") THEN src.active ELSE rumor.active,
   maxPrints |-> IF HasKey(src, "max_prints")
                 THEN (IF src.max_prints < 1 THEN 1 ELSE src.max_prints)
                 ELSE rumor.maxPrints,
   printedCount |-> IF HasKey(src, "printed_count") THEN src.printed_count
                    ELSE rumor.printedCount]

\* the field-by-field merge of parseRumorFromJson: a key of src overwrites
\* the rumor's field, an absent key leaves it
MergeFields(src, rumor) ==
  [id |-> rumor.id,
   title |-> IF HasKey(src, "title") THEN src.title ELSE rumor.title,
   textNl |-> IF HasKey(src, "text_nl") THEN src.text_nl ELSE rumor.textNl,
   textEn |-> IF HasKey(src, "text_en") THEN src.text_en ELSE rumor.textEn,
   people |-> IF HasKey(src, "people") THEN src.people ELSE rumor.people,
   active |-> IF HasKey(src, "active") THEN src.active ELSE rumor.active,
   maxPrints |-> IF HasKey(src, "max_prints") THEN ParsedMaxPrints(src)
                 ELSE rumor.maxPrints,
   printedCount |-> rumor.printedCount]

\* parseRumorFromJson without the check of the required keys
parseRumorNoRequiredCheck(src, rumor, allowPartial) ==
  [ok |-> TRUE, rumor |-> MergeFields(src, rumor)]

\* parseRumorFromJson: [ok, rumor], rumor being the in/out argument
parseRumorFromJson(src, rumor, allowPartial) ==
  IF ~allowPartial /\ ~HasRequired(src)
  THEN [ok |-> FALSE, rumor |-> rumor]
  ELSE [ok |-> TRUE, rumor |-> MergeFields(src, rumor)]

\* the search loops of the update/delete/reset handlers: the position of the
\* first rumor with the id, 0 when there is none
FindRumor(rs, rumorId) ==
  IF \E i \in 1..Len(rs) : rs[i].id = rumorId
  THEN CHOOSE i \in 1..Len(rs) :
         rs[i].id = rumorId /\ \A j \in 1..(i - 1) : rs[j].id # rumorId
  ELSE 0

\* rumors.erase(it)
Erase(rs, i) == SubSeq(rs, 1, i - 1) \o SubSeq(rs, i + 1, Len(rs))

\* the scan's test without the check of `active`
IsEligibleIgnoringActive(rumor) == rumor.printedCount < rumor.maxPrints

\* the scan's test with <= for <
IsEligibleOffByOne(rumor) == rumor.active /\ rumor.printedCount <= rumor.maxPrints

\* the test of pickRandomRumor's scan
IsEligible(rumor) == rumor.active /\ rumor.printedCount < rumor.maxPrints

RECURSIVE EligibleFrom(_, _)
\* the scan of pickRandomRumor from position i on: the eligible positions
EligibleFrom(rs, i) ==
  IF i > Len(rs) THEN <<>>
  ELSE (IF IsEligible(rs[i]) THEN <<i>> ELSE <<>>) \o EligibleFrom(rs, i + 1)

\* the increment applied to every rumor instead of the chosen one
IncrementPrintedAll(rs, choice) ==
  [i \in 1..Len(rs) |->
     [rs[i] EXCEPT !.printedCount = (@ + 1) % (UINT16_MAX + 1)]]

\* the increment by 2 instead of 1
IncrementPrintedTwice(rs, choice) ==
  [rs EXCEPT ![choice].printedCount = (@ + 2) % (UINT16_MAX + 1)]

\* rumors[choice].printedCount += 1 on a uint16_t
IncrementPrinted(rs, choice) ==
  [rs EXCEPT ![choice].printedCount = (@ + 1) % (UINT16_MAX + 1)]

\* bytes of a text of the model
TextBytes(text) == IF text = LongText THEN LongTextBytes ELSE Len(text)

RECURSIVE TextBytesFrom(_, _)
\* bytes of the Strings that saveRumorsLocked copies into its document, from
\* position i on
TextBytesFrom(rs, i) ==
  IF i > Len(rs) THEN 0
  ELSE TextBytes(rs[i].title) + TextBytes(rs[i].textNl) +
       TextBytes(rs[i].textEn) + TextBytes(rs[i].people) +
       TextBytesFrom(rs, i + 1)

\* DynamicJsonDocument doc(1024 + rumors.size() * 256) has room for the texts
\* of the vector; the short texts of the model stand for texts that fit
\* together with the objects' own memory
DocHolds(rs) ==
  TextBytesFrom(rs, 1) <= kDocBaseBytes + Len(rs) * kDocBytesPerRumor

\* the object of a rumor whose texts did not all get into the document: the
\* long texts are missing
RumorToJsonShort(rumor) ==
  LET obj == RumorToJson(rumor)
  IN  [key \in {k \in DOMAIN obj :
                  ~(k \in {"title", "text_nl", "text_en", "people"}
                    /\ obj[k] = LongText)} |-> obj[key]]

\* the position of the first rumor with a long text, 0 when there is none
FirstLong(rs) ==
  IF \E i \in 1..Len(rs) : TextBytesFrom(<<rs[i]>>, 1) >= LongTextBytes
  THEN CHOOSE i \in 1..Len(rs) :
         /\ TextBytesFrom(<<rs[i]>>, 1) >= LongTextBytes
         /\ \A j \in 1..(i - 1) : TextBytesFrom(<<rs[j]>>, 1) < LongTextBytes
  ELSE 0

\* the documents saveRumorsLocked can have built when the texts exceed the
\* capacity of its DynamicJsonDocument. What the document then lacks is the
\* JSON library's doing: nothing in a build whose documents grow, the texts
\* that found no room, or every object from the first that found no room
DocsOf(rs) ==
  IF DocHolds(rs) THEN {Serialize(rs)}
  ELSE { Serialize(rs),
         [i \in 1..Len(rs) |-> RumorToJsonShort(rs[i])],
         SubSeq(Serialize(rs), 1, FirstLong(rs) - 1) }

\* saveRumorsLocked: the outcomes of one call, each the file after the call
\* and the bool returned. LittleFS.open(kRumorsPath, "w") fails when the file
\* system is not mounted and can fail when it is (canFail); the function then
\* returns false and the file is left as it was. Otherwise the document is
\* written over the file and the function returns true, whether the document
\* is complete or not
saveRumorsLocked(rs, file, isMounted, canFail) ==
  IF ~isMounted THEN {[file |-> file, ok |-> FALSE]}
  ELSE { [file |-> [exists |-> TRUE, valid |-> TRUE, doc |-> d], ok |-> TRUE] :
           d \in DocsOf(rs) }
       \cup (IF canFail THEN {[file |-> file, ok |-> FALSE]} ELSE {})

\* the effect of a call of saveRumorsLocked on the file, and on the number of
\* opens that can still fail
SaveStep(out) ==
  /\ disk' = out.file
  /\ writeFailsLeft' =
       (IF mounted /\ ~out.ok THEN writeFailsLeft - 1 ELSE writeFailsLeft)

\* ---------------------------------------------------------- the mutex
\* lockRumors that takes the mutex whoever holds it
lockRumorsUnchecked(t) == mutex' = t

\* lockRumors returning true: xSemaphoreTake succeeds when no task holds the
\* mutex
lockRumors(t) == mutex = NoTask /\ mutex' = t

\* lockRumors returning false: the wait times out, which takes another task
\* holding the mutex for the whole wait
lockTimeout(t) == mutex # NoTask /\ mutex # t /\ mutex' = mutex

\* unlockRumors: xSemaphoreGive by the holder
unlockRumors(t) == mutex = t /\ mutex' = NoTask

\* --------------------------------------------------------------- Init
AbsentFile == [exists |-> FALSE, valid |-> FALSE, doc |-> <<>>]
GarbageFile == [exists |-> TRUE, valid |-> FALSE, doc |-> <<>>]
DocFile(doc) == [exists |-> TRUE, valid |-> TRUE, doc |-> doc]

\* what /rumors.json can hold at boot: nothing, an undecodable document, and
\* an older document whose rumor lacks the optional keys
InitFiles ==
  { AbsentFile, GarbageFile,
    DocFile(<< [id |-> 1, title |-> "A", text_nl |-> "an", text_en |-> "ae",
                people |-> "p"] >>) }

\* power-on, with the number of opens for writing that can fail
Boot(failsLeft) ==
  /\ writeFailsLeft = failsLeft
  /\ rumors = <<>>
  /\ disk \in InitFiles
  /\ mounted = FALSE
  /\ mutex = NoTask
  /\ setupPc = "boot"
  /\ loadDoc = <<>>
  /\ loadOk = FALSE
  /\ webPc = [t \in Web |-> "idle"]
  /\ webRes = [t \in Web |-> 0]
  /\ newRumor = [t \in Web |-> DefaultRumor]
  /\ printPc = "idle"
  /\ eligible = <<>>
  /\ selected = DefaultRumor
  /\ queue = 0
  /\ sent = 0
  /\ now = 0
  /\ lastState = "HIGH"
  /\ lastTrigger = 0
  /\ polls = 0
  /\ prevEdge = -1
  /\ prevEnq = FALSE
  /\ lastAccepted = -1
  /\ maxAssigned = 0
  /\ mutated = FALSE

\* power-on with storage that takes every write once it is mounted (and none
\* when LittleFS.begin fails)
Init == Boot(0)

\* power-on with storage on which an open for writing can fail although the
\* file system is mounted
InitFlaky == Boot(MaxWriteFails)

\* ------------------------------------------------- setup() / loadRumors
\* loadRumors whose failures stop setup() instead of returning false
LoadBeginHalts ==
  /\ setupPc = "boot"
  /\ \E ok \in BOOLEAN, opened \in BOOLEAN :
       /\ mounted' = ok
       /\ IF ~ok THEN
            /\ loadOk' = FALSE /\ setupPc' = "halt" /\ loadDoc' = loadDoc
          ELSE IF ~disk.exists THEN
            /\ loadOk' = loadOk /\ setupPc' = "new_lock" /\ loadDoc' = loadDoc
          ELSE IF ~opened \/ ~disk.valid THEN
            /\ loadOk' = FALSE /\ setupPc' = "halt" /\ loadDoc' = loadDoc
          ELSE
            /\ loadOk' = loadOk /\ setupPc' = "load_lock" /\ loadDoc' = disk.doc
  /\ UNCHANGED <<rumors, disk, mutex, webVars, printVars, queueVars, histVars>>

\* loadRumors up to its first lock: LittleFS.begin, exists, open(path, "r"),
\* which can fail on a file that exists, and deserializeJson
LoadBegin ==
  /\ setupPc = "boot"
  /\ \E ok \in BOOLEAN, opened \in BOOLEAN :
       /\ mounted' = ok
       /\ IF ~ok THEN
            /\ loadOk' = FALSE /\ setupPc' = "server" /\ loadDoc' = loadDoc
          ELSE IF ~disk.exists THEN
            /\ loadOk' = loadOk /\ setupPc' = "new_lock" /\ loadDoc' = loadDoc
          ELSE IF ~opened \/ ~disk.valid THEN
            /\ loadOk' = FALSE /\ setupPc' = "server" /\ loadDoc' = loadDoc
          ELSE
            /\ loadOk' = loadOk /\ setupPc' = "load_lock" /\ loadDoc' = disk.doc
  /\ UNCHANGED <<rumors, disk, mutex, webVars, printVars, queueVars, histVars>>

\* lockRumors(200) of loadRumors, on either path
LoadLock ==
  /\ setupPc \in {"new_lock", "load_lock"}
  /\ IF mutex = NoTask THEN
       /\ lockRumors(SetupTask)
       /\ setupPc' = (IF setupPc = "new_lock" THEN "new_clear" ELSE "load_fill")
       /\ loadOk' = loadOk
     ELSE
       /\ lockTimeout(SetupTask)
       /\ setupPc' = "server"
       /\ loadOk' = FALSE
  /\ UNCHANGED <<rumors, disk, mounted, loadDoc, webVars, printVars, queueVars,
                 histVars>>

\* no file yet: rumors.clear()
LoadClear ==
  /\ setupPc = "new_clear"
  /\ rumors' = <<>>
  /\ setupPc' = "new_save"
  /\ UNCHANGED <<disk, mounted, mutex, loadDoc, loadOk, webVars, printVars,
                 queueVars, histVars>>

\* no file yet: bool ok = saveRumorsLocked()
LoadSaveEmpty ==
  /\ setupPc = "new_save"
  /\ \E out \in saveRumorsLocked(rumors, disk, mounted,
                                  writeFailsLeft > 0) :
       /\ SaveStep(out)
       /\ loadOk' = out.ok
  /\ setupPc' = "new_unlock"
  /\ UNCHANGED <<rumors, mounted, mutex, loadDoc, webVars, printVars, queueVars,
                 maxAssigned, mutated>>

\* a decoded file: rumors.clear() and the push_back loop
LoadFill ==
  /\ setupPc = "load_fill"
  /\ rumors' = Deserialize(loadDoc)
  /\ setupPc' = "load_unlock"
  /\ UNCHANGED <<disk, mounted, mutex, loadDoc, loadOk, webVars, printVars,
                 queueVars, histVars>>

\* unlockRumors of loadRumors, on either path
LoadUnlock ==
  /\ setupPc \in {"new_unlock", "load_unlock"}
  /\ unlockRumors(SetupTask)
  /\ setupPc' = (IF setupPc = "new_unlock" THEN "server" ELSE "load_log")
  /\ UNCHANGED <<rumors, disk, mounted, loadDoc, loadOk, webVars, printVars,
                 queueVars, histVars>>

\* Serial.printf("loaded %u rumors", rumors.size()), which reads the vector
\* after the unlock, and return true
LoadLog ==
  /\ setupPc = "load_log"
  /\ loadOk' = TRUE
  /\ setupPc' = "server"
  /\ UNCHANGED <<rumors, disk, mounted, mutex, loadDoc, webVars, printVars,
                 queueVars, histVars>>

\* setupRoutes(); server.begin(): requests are served from here on
ServerBegin ==
  /\ setupPc = "server"
  /\ setupPc' = "tasks"
  /\ UNCHANGED <<rumors, disk, mounted, mutex, loadDoc, loadOk, webVars,
                 printVars, queueVars, histVars>>

\* xTaskCreatePinnedToCore of reedTask and printTask
StartTasks ==
  /\ setupPc = "tasks"
  /\ setupPc' = "done"
  /\ UNCHANGED <<rumors, disk, mounted, mutex, loadDoc, loadOk, webVars,
                 printVars, queueVars, histVars>>

ServerStarted == setupPc \in {"tasks", "done"}
TasksStarted == setupPc = "done"

\* ------------------------------------------------- the trigger queue
\* xQueueSend(printQueue, &signal, 0): dropped when the queue is full
XQueueSend ==
  /\ TasksStarted
  /\ sent < MaxTriggers
  /\ sent' = sent + 1
  /\ queue' = (IF queue < kQueueLength THEN queue + 1 ELSE queue)
  /\ UNCHANGED <<rumors, disk, mutex, setupVars, webVars, printVars, reedVars,
                 histVars>>

\* ------------------------------------------------------- reedTask
\* the time between two samples of reedTask in which the pin differs or an
\* edge is looked at: one vTaskDelay(kReedPollMs), or a run of polls with a
\* steady pin that ends one poll before or one poll after a whole cooldown
Deltas ==
  {kReedPollMs, kPrintCooldownMs - kReedPollMs, kPrintCooldownMs + kReedPollMs}

\* the test of an edge without the cooldown: every edge is sent
CooldownIgnored(t, last) == TRUE

\* (now - lastTrigger) > kPrintCooldownMs; the times of the model stay far
\* from the wrap-around of millis(), so the uint32_t difference is the plain
\* one
CooldownOver(t, last) == (t - last) > kPrintCooldownMs

\* one iteration of reedTask's loop: sample the pin and the clock, on a
\* falling edge after the cooldown xQueueSend(printQueue, &signal, 0) (the
\* signal is dropped when the queue is full) and lastTrigger = now, then
\* lastState = state
ReedPoll ==
  /\ TasksStarted
  /\ polls < MaxPolls
  /\ \E d \in Deltas, state \in {"LOW", "HIGH"} :
       LET t == now + d
           edge == state = "LOW" /\ lastState = "HIGH"
           send == edge /\ CooldownOver(t, lastTrigger)
           room == queue < kQueueLength
       IN  /\ now' = t
           /\ lastState' = state
           /\ polls' = polls + 1
           /\ queue' = (IF send /\ room THEN queue + 1 ELSE queue)
           /\ sent' = (IF send THEN sent + 1 ELSE sent)
           /\ lastTrigger' = (IF send THEN t ELSE lastTrigger)
           /\ prevEdge' = (IF edge THEN t ELSE prevEdge)
           /\ prevEnq' = (IF edge THEN send /\ room ELSE prevEnq)
           /\ lastAccepted' = (IF send /\ room THEN t ELSE lastAccepted)
  /\ UNCHANGED <<rumors, disk, mutex, setupVars, webVars, printVars, histVars>>

\* ------------------------------------- printTask / pickRandomRumor
\* xQueueReceive returns a signal; Rumor selected is constructed
PrintReceive ==
  /\ TasksStarted
  /\ printPc = "idle"
  /\ queue > 0
  /\ queue' = queue - 1
  /\ selected' = DefaultRumor
  /\ printPc' = "pick"
  /\ UNCHANGED <<rumors, disk, mutex, setupVars, webVars, eligible, sent,
                 reedVars, histVars>>

\* pickRandomRumor: lockRumors(500) succeeds
PickLock ==
  /\ printPc = "pick"
  /\ lockRumors(PrintTask)
  /\ printPc' = "scan"
  /\ UNCHANGED <<rumors, disk, setupVars, webVars, eligible, selected,
                 queueVars, histVars>>

\* pickRandomRumor waiting for the mutex without a timeout (portMAX_DELAY)
PickBusyWaits ==
  /\ printPc = "pick"
  /\ lockTimeout(PrintTask)
  /\ UNCHANGED <<rumors, disk, setupVars, webVars, printVars, queueVars,
                 histVars>>

\* pickRandomRumor: lockRumors(500) times out and the function returns false
PickBusy ==
  /\ printPc = "pick"
  /\ lockTimeout(PrintTask)
  /\ printPc' = "fallback"
  /\ UNCHANGED <<rumors, disk, setupVars, webVars, eligible, selected,
                 queueVars, histVars>>

\* pickRandomRumor: the scan that fills `eligible`
PickScan ==
  /\ printPc = "scan"
  /\ eligible' = EligibleFrom(rumors, 1)
  /\ printPc' = (IF eligible' = <<>> THEN "unlock_none" ELSE "choose")
  /\ UNCHANGED <<rumors, disk, mutex, setupVars, webVars, selected, queueVars,
                 histVars>>

\* pickRandomRumor: choice = eligible[random(size)], the increment and the
\* copy into `selected`
PickChoose ==
  /\ printPc = "choose"
  /\ \E k \in 1..Len(eligible) :
       /\ rumors' = IncrementPrinted(rumors, eligible[k])
       /\ selected' = rumors'[eligible[k]]
  /\ eligible' = <<>>
  /\ printPc' = "save"
  /\ mutated' = TRUE
  /\ UNCHANGED <<disk, mutex, setupVars, webVars, queueVars, maxAssigned,
                 writeFailsLeft>>

\* pickRandomRumor: saveRumorsLocked()
PickSave ==
  /\ printPc = "save"
  /\ \E out \in saveRumorsLocked(rumors, disk, mounted,
                                  writeFailsLeft > 0) :
       SaveStep(out)
  /\ printPc' = "unlock"
  /\ UNCHANGED <<rumors, mutex, setupVars, webVars, eligible, selected,
                 queueVars, maxAssigned, mutated>>

\* pickRandomRumor returning with the mutex still held
PickUnlockKept ==
  /\ printPc \in {"unlock", "unlock_none"}
  /\ printPc' = (IF printPc = "unlock" THEN "render" ELSE "fallback")
  /\ eligible' = <<>>
  /\ UNCHANGED <<rumors, disk, mutex, setupVars, webVars, selected, queueVars,
                 histVars>>

\* pickRandomRumor: unlockRumors() and return, true after a choice and false
\* when nothing was eligible
PickUnlock ==
  /\ printPc \in {"unlock", "unlock_none"}
  /\ unlockRumors(PrintTask)
  /\ printPc' = (IF printPc = "unlock" THEN "render" ELSE "fallback")
  /\ eligible' = <<>>
  /\ UNCHANGED <<rumors, disk, setupVars, webVars, selected, queueVars,
                 histVars>>

\* printTask: printRumor(selected), then back to xQueueReceive
PrintRumor ==
  /\ printPc = "render"
  /\ printPc' = "idle"
  /\ selected' = DefaultRumor
  /\ UNCHANGED <<rumors, disk, mutex, setupVars, webVars, eligible, queueVars,
                 histVars>>

\* printTask: the "No active rumors" slip, then back to xQueueReceive
PrintFallback ==
  /\ printPc = "fallback"
  /\ printPc' = "idle"
  /\ UNCHANGED <<rumors, disk, mutex, setupVars, webVars, eligible, selected,
                 queueVars, histVars>>

\* ------------------------------------------------- request handlers
\* the positions of the request bodies
\* the bodies with short texts, and the body with the long text
Bodies == 1..(Len(Payloads) - 1)
LongBody == Len(Payloads)

otherVars == <<setupVars, printVars, queueVars>>

\* the model's bounds on a create: the vector and the ids stay small
CreateFits == Len(rumors) < MaxRumors /\ nextRumorId(rumors) <= MaxRumors

\* a handler's lockRumors(500) succeeds; the request it serves is drawn where
\* the handler first uses it, in its locked section
WebLock(t) ==
  /\ ServerStarted
  /\ webPc[t] = "idle"
  /\ lockRumors(t)
  /\ webPc' = [webPc EXCEPT ![t] = "cs"]
  /\ UNCHANGED <<rumors, disk, webRes, newRumor, otherVars, histVars>>

\* a handler whose busy branch lacks the return: the response is sent and
\* the handler runs on into its locked section without the lock
WebBusyNoReturn(t) ==
  /\ ServerStarted
  /\ webPc[t] = "idle"
  /\ lockTimeout(t)
  /\ webRes' = [webRes EXCEPT ![t] = 503]
  /\ webPc' = [webPc EXCEPT ![t] = "cs"]
  /\ UNCHANGED <<rumors, disk, newRumor, otherVars, histVars>>

\* a handler's lockRumors(500) times out: sendJsonError(503, "busy")
WebBusy(t) ==
  /\ ServerStarted
  /\ webPc[t] = "idle"
  /\ lockTimeout(t)
  /\ webRes' = [webRes EXCEPT ![t] = 503]
  /\ webPc' = [webPc EXCEPT ![t] = "respond"]
  /\ UNCHANGED <<rumors, disk, newRumor, otherVars, histVars>>

\* a step of a handler's locked section: on to `next` with status `code`
WebGoto(t, next, code) ==
  /\ webPc' = [webPc EXCEPT ![t] = next]
  /\ webRes' = [webRes EXCEPT ![t] = code]
  /\ UNCHANGED <<disk, mutex, otherVars>>

\* a rejecting path that returns without its unlockRumors()
WebRejectLeaks(t, code) ==
  /\ WebGoto(t, "respond", code)
  /\ UNCHANGED <<rumors, newRumor, histVars>>

\* a step of a handler's locked section that rejects the request
WebReject(t, code) ==
  /\ WebGoto(t, "unlock", code)
  /\ UNCHANGED <<rumors, newRumor, histVars>>

\* handleListRumors: the loop that copies the rumors into the response
handleListRumors(t) ==
  /\ webPc[t] = "cs"
  /\ WebGoto(t, "unlock", 200)
  /\ UNCHANGED <<rumors, newRumor, histVars>>

\* handleCreateRumor: Rumor rumor; rumor.id = nextRumorId(); the parse
handleCreateRumor(t, body) ==
  /\ webPc[t] = "cs"
  /\ CreateFits
  /\ LET rumor == [DefaultRumor EXCEPT !.id = nextRumorId(rumors),
                                       !.maxPrints = kDefaultMaxPrints]
         parsed == parseRumorFromJson(Payloads[body], rumor, FALSE)
     IN  IF ~parsed.ok THEN WebReject(t, 400)
         ELSE /\ newRumor' = [newRumor EXCEPT ![t] = parsed.rumor]
              /\ WebGoto(t, "push", 201)
              /\ UNCHANGED <<rumors, histVars>>

\* handleCreateRumor: rumors.push_back(rumor)
CreatePushBack(t) ==
  /\ webPc[t] = "push"
  /\ rumors' = Append(rumors, newRumor[t])
  /\ maxAssigned' = (IF newRumor[t].id > maxAssigned THEN newRumor[t].id
                     ELSE maxAssigned)
  /\ mutated' = TRUE
  /\ newRumor' = [newRumor EXCEPT ![t] = DefaultRumor]
  /\ WebGoto(t, "save", 201)
  /\ UNCHANGED writeFailsLeft

\* handleUpdateRumor between lock and save
handleUpdateRumor(t, rumorId, body) ==
  /\ webPc[t] = "cs"
  /\ LET target == FindRumor(rumors, rumorId)
     IN  IF target = 0 THEN WebReject(t, 404)
         ELSE LET parsed == parseRumorFromJson(Payloads[body], rumors[target],
                                               TRUE)
              IN  IF ~parsed.ok THEN WebReject(t, 400)
                  ELSE /\ rumors' = [rumors EXCEPT ![target] = parsed.rumor]
                       /\ mutated' = TRUE
                       /\ WebGoto(t, "save", 200)
                       /\ UNCHANGED <<newRumor, maxAssigned, writeFailsLeft>>

\* handleDeleteRumor between lock and save
handleDeleteRumor(t, rumorId) ==
  /\ webPc[t] = "cs"
  /\ LET target == FindRumor(rumors, rumorId)
     IN  IF target = 0 THEN WebReject(t, 404)
         ELSE /\ rumors' = Erase(rumors, target)
              /\ mutated' = TRUE
              /\ WebGoto(t, "save", 204)
              /\ UNCHANGED <<newRumor, maxAssigned, writeFailsLeft>>

\* handleResetRumor that resets every rumor once the target is found
handleResetRumorAll(t, rumorId) ==
  /\ webPc[t] = "cs"
  /\ LET target == FindRumor(rumors, rumorId)
     IN  IF target = 0 THEN WebReject(t, 404)
         ELSE /\ rumors' = [i \in 1..Len(rumors) |->
                              [rumors[i] EXCEPT !.printedCount = 0]]
              /\ mutated' = TRUE
              /\ WebGoto(t, "save", 204)
              /\ UNCHANGED <<newRumor, maxAssigned, writeFailsLeft>>

\* handleResetRumor between lock and save
handleResetRumor(t, rumorId) ==
  /\ webPc[t] = "cs"
  /\ LET target == FindRumor(rumors, rumorId)
     IN  IF target = 0 THEN WebReject(t, 404)
         ELSE /\ rumors' = [rumors EXCEPT ![target].printedCount = 0]
              /\ mutated' = TRUE
              /\ WebGoto(t, "save", 204)
              /\ UNCHANGED <<newRumor, maxAssigned, writeFailsLeft>>

\* handleResetAllRumors between lock and save
handleResetAllRumors(t) ==
  /\ webPc[t] = "cs"
  /\ rumors' = [i \in 1..Len(rumors) |-> [rumors[i] EXCEPT !.printedCount = 0]]
  /\ mutated' = TRUE
  /\ WebGoto(t, "save", 204)
  /\ UNCHANGED <<newRumor, maxAssigned, writeFailsLeft>>

\* a handler's saveRumorsLocked()
WebSave(t) ==
  /\ webPc[t] = "save"
  /\ \E out \in saveRumorsLocked(rumors, disk, mounted,
                                  writeFailsLeft > 0) :
       SaveStep(out)
  /\ webPc' = [webPc EXCEPT ![t] = "unlock"]
  /\ UNCHANGED <<rumors, mutex, webRes, newRumor, otherVars, maxAssigned,
                 mutated>>

\* a handler's unlockRumors()
WebUnlock(t) ==
  /\ webPc[t] = "unlock"
  /\ unlockRumors(t)
  /\ webPc' = [webPc EXCEPT ![t] = "respond"]
  /\ UNCHANGED <<rumors, disk, webRes, newRumor, otherVars, histVars>>

\* a handler's request->send(...) and return
WebRespond(t) ==
  /\ webPc[t] = "respond"
  /\ webPc' = [webPc EXCEPT ![t] = "idle"]
  /\ webRes' = [webRes EXCEPT ![t] = 0]
  /\ UNCHANGED <<rumors, disk, mutex, newRumor, otherVars, histVars>>

\* ------------------------------------------------------ specification
SetupStep ==
  \/ LoadBegin \/ LoadLock \/ LoadClear \/ LoadSaveEmpty \/ LoadFill
  \/ LoadUnlock \/ LoadLog \/ ServerBegin \/ StartTasks

PrintStep ==
  \/ PrintReceive \/ PickLock \/ PickBusy \/ PickScan \/ PickChoose
  \/ PickSave \/ PickUnlock \/ PrintRumor \/ PrintFallback

WebStep(t) ==
  \/ WebLock(t) \/ WebBusy(t)
  \/ handleListRumors(t)
  \/ \E body \in Bodies : handleCreateRumor(t, body)
  \/ CreatePushBack(t)
  \/ \E rumorId \in PathIds, body \in Bodies : handleUpdateRumor(t, rumorId, body)
  \/ \E rumorId \in PathIds : handleDeleteRumor(t, rumorId)
  \/ \E rumorId \in PathIds : handleResetRumor(t, rumorId)
  \/ handleResetAllRumors(t)
  \/ WebSave(t) \/ WebUnlock(t) \/ WebRespond(t)

\* the firmware: setup, the trigger queue, the print task and the request
\* handlers, which the web server runs one at a time on its service task
Next == SetupStep \/ XQueueSend \/ PrintStep \/ WebStep("web1")

Spec == Init /\ [][Next]_vars

\* the registry under two request contexts that run their handlers in parallel
NextWeb == SetupStep \/ \E t \in Web : WebStep(t)

SpecWeb == Init /\ [][NextWeb]_vars

\* setup() has run on an empty store: the state in which the tasks start
InitDone ==
  /\ rumors = <<>>
  /\ disk = DocFile(<<>>)
  /\ mounted = TRUE
  /\ mutex = NoTask
  /\ setupPc = "done"
  /\ loadDoc = <<>>
  /\ loadOk = TRUE
  /\ webPc = [t \in Web |-> "idle"]
  /\ webRes = [t \in Web |-> 0]
  /\ newRumor = [t \in Web |-> DefaultRumor]
  /\ printPc = "idle"
  /\ eligible = <<>>
  /\ selected = DefaultRumor
  /\ queue = 0
  /\ sent = 0
  /\ now = 0
  /\ lastTrigger = 0
  /\ polls = 0
  /\ prevEdge = -1
  /\ prevEnq = FALSE
  /\ lastAccepted = -1
  /\ maxAssigned = 0
  /\ mutated = FALSE
  /\ writeFailsLeft = 0

\* the flags and counters a rumor of the registry can have: a limit from 1
\* on (1 and 2 here), any count (a count above the limit is what an update
\* that lowers max_prints leaves)
ItemShapes ==
  [active : BOOLEAN, maxPrints : {1, 2}, printedCount : 0..MaxTriggers]

\* the registries of up to MaxRumors rumors with ids 1, 2, ...
Collections ==
  UNION { { [i \in 1..n |->
              [DefaultRumor EXCEPT !.id = i, !.title = "A",
                                   !.active = f[i].active,
                                   !.maxPrints = f[i].maxPrints,
                                   !.printedCount = f[i].printedCount]] :
            f \in [1..n -> ItemShapes] } : n \in 0..MaxRumors }

\* the firmware running on a saved registry, no request and no signal pending
InitPick ==
  /\ rumors \in Collections
  /\ disk = DocFile(Serialize(rumors))
  /\ mounted = TRUE
  /\ mutex = NoTask
  /\ setupPc = "done"
  /\ loadDoc = <<>>
  /\ loadOk = TRUE
  /\ webPc = [t \in Web |-> "idle"]
  /\ webRes = [t \in Web |-> 0]
  /\ newRumor = [t \in Web |-> DefaultRumor]
  /\ printPc = "idle"
  /\ eligible = <<>>
  /\ selected = DefaultRumor
  /\ queue = 0
  /\ sent = 0
  /\ now = 0
  /\ lastState = "HIGH"
  /\ lastTrigger = 0
  /\ polls = 0
  /\ prevEdge = -1
  /\ prevEnq = FALSE
  /\ lastAccepted = -1
  /\ maxAssigned = Len(rumors)
  /\ mutated = FALSE
  /\ writeFailsLeft = 0

\* the requests that are neither create, update nor reset: list and delete
WebQuietStep(t) ==
  \/ WebLock(t) \/ WebBusy(t)
  \/ handleListRumors(t)
  \/ \E rumorId \in PathIds : handleDeleteRumor(t, rumorId)
  \/ WebSave(t) \/ WebUnlock(t) \/ WebRespond(t)

\* selections with no create, update or reset in between
NextPick == XQueueSend \/ PrintStep \/ WebQuietStep("web1")

SpecPick == InitPick /\ [][NextPick]_vars

\* the requests on the rumors the store holds: all but create
WebStoredStep(t) ==
  \/ WebLock(t) \/ WebBusy(t)
  \/ handleListRumors(t)
  \/ \E rumorId \in PathIds, body \in Bodies : handleUpdateRumor(t, rumorId, body)
  \/ \E rumorId \in PathIds : handleDeleteRumor(t, rumorId)
  \/ \E rumorId \in PathIds : handleResetRumor(t, rumorId)
  \/ handleResetAllRumors(t)
  \/ WebSave(t) \/ WebUnlock(t) \/ WebRespond(t)

\* setup(), the trigger queue and the print task, with the requests on the
\* stored rumors competing for the mutex
NextLive == SetupStep \/ XQueueSend \/ PrintStep \/ WebStoredStep("web1")

\* the firmware under the FreeRTOS scheduler: setup() runs to its end and the
\* print task, which only ever waits on the queue (forever) and on the mutex
\* (500 ms at most), gets the processor whenever it can take a step; nothing
\* is assumed about the requests and the trigger source
FairSpec ==
  InitFlaky /\ [][NextLive]_vars /\ WF_vars(SetupStep) /\ WF_vars(PrintStep)

\* the firmware in service: setup() has run on an empty store, and the trigger
\* queue, the print task and the request handlers work on the registry
InitServe == InitDone /\ lastState = "HIGH"

NextServe == XQueueSend \/ PrintStep \/ WebStep("web1")

SpecServe == InitServe /\ [][NextServe]_vars

\* the request bodies of the lock study: a complete one, which a create
\* accepts, and a partial one, which a create rejects and an update applies
LockBodies == {1, 4}

\* a handler past its lockRumors: the locked section, or the busy answer, up
\* to the return
WebRunStep(t) ==
  \/ handleListRumors(t)
  \/ \E body \in LockBodies : handleCreateRumor(t, body)
  \/ CreatePushBack(t)
  \/ \E rumorId \in PathIds, body \in LockBodies :
       handleUpdateRumor(t, rumorId, body)
  \/ \E rumorId \in PathIds : handleDeleteRumor(t, rumorId)
  \/ \E rumorId \in PathIds : handleResetRumor(t, rumorId)
  \/ handleResetAllRumors(t)
  \/ WebSave(t) \/ WebUnlock(t) \/ WebRespond(t)

NextLock ==
  \/ SetupStep \/ XQueueSend \/ PrintStep
  \/ WebLock("web1") \/ WebBusy("web1") \/ WebRunStep("web1")

\* every caller of the registry under the FreeRTOS scheduler: setup() runs to
\* its end, the print task gets the processor whenever it can take a step, and
\* a handler that the web server has called runs on to its return; nothing is
\* assumed about the arrival of requests and trigger signals
FairLockSpec ==
  /\ Init /\ [][NextLock]_vars
  /\ WF_vars(SetupStep) /\ WF_vars(PrintStep) /\ WF_vars(WebRunStep("web1"))

\* the request bodies of the storage study: a complete one and a partial one
\* with short texts, and the complete one with the long text
StoreBodies == {1, 4, LongBody}

WebStoreStep(t) ==
  \/ WebLock(t) \/ WebBusy(t)
  \/ handleListRumors(t)
  \/ \E body \in StoreBodies : handleCreateRumor(t, body)
  \/ CreatePushBack(t)
  \/ \E rumorId \in PathIds, body \in StoreBodies :
       handleUpdateRumor(t, rumorId, body)
  \/ \E rumorId \in PathIds : handleDeleteRumor(t, rumorId)
  \/ \E rumorId \in PathIds : handleResetRumor(t, rumorId)
  \/ handleResetAllRumors(t)
  \/ WebSave(t) \/ WebUnlock(t) \/ WebRespond(t)

NextStore == SetupStep \/ XQueueSend \/ PrintStep \/ WebStoreStep("web1")

\* the firmware on storage that is not reliable, with texts that exceed the
\* capacity of the document saveRumorsLocked builds
SpecStore == InitFlaky /\ [][NextStore]_vars

\* reedTask starts: int lastState = digitalRead(kReedPin)
InitReed == InitDone /\ lastState \in {"LOW", "HIGH"}

\* the trigger source with its clock, and the print task taking the signals
\* on an empty registry
NextReed ==
  \/ ReedPoll
  \/ PrintReceive \/ PickLock \/ PickScan \/ PickUnlock \/ PrintFallback

SpecReed == InitReed /\ [][NextReed]_vars

\* ------------------------------------------------------------ claims
Tasks == Web \cup {PrintTask, SetupTask}

\* t is between a successful lockRumors and its unlockRumors
InCritical(t) ==
  IF t \in Web THEN webPc[t] \in {"cs", "push", "save", "unlock"}
  ELSE IF t = PrintTask
    THEN printPc \in {"scan", "choose", "save", "unlock", "unlock_none"}
  ELSE setupPc \in {"new_clear", "new_save", "new_unlock", "load_fill",
                    "load_unlock"}

\* the next step of t reads or writes the vector, or writes the snapshot
Accesses(t) ==
  IF t \in Web THEN webPc[t] \in {"cs", "push", "save", "unlock"}
  ELSE IF t = PrintTask THEN printPc \in {"scan", "choose", "save"}
  ELSE setupPc \in {"new_clear", "new_save", "load_fill", "load_log"}

\* C1 as stated: every task that is inside a locked section, or about to read
\* or write the vector or write the snapshot, holds the mutex (so at most one
\* task is inside a locked section).
C1_Original ==
  \A t \in Tasks : (InCritical(t) \/ Accesses(t)) => mutex = t

\* C1 amended: as C1, except that loadRumors reads rumors.size() for its log
\* line after its unlock; at that point no handler and no task has been
\* started, so no other operation can run beside that read.
C1_LockDiscipline ==
  /\ \A t \in Tasks : InCritical(t) => mutex = t
  /\ \A t \in Tasks :
       (Accesses(t) /\ ~(t = SetupTask /\ setupPc = "load_log")) => mutex = t
  /\ setupPc = "load_log" =>
       /\ mutex = NoTask
       /\ printPc = "idle"
       /\ \A w \in Web : webPc[w] = "idle"

\* a handler was refused with 503 while the print task saves under the lock
C1_Witness ==
  /\ mutex = PrintTask /\ printPc = "save"
  /\ webPc["web1"] = "respond" /\ webRes["web1"] = 503

\* C2: the rumor pickRandomRumor increments and returns was active and below
\* its limit in the state in which it is incremented, and while the print
\* task is inside pickRandomRumor's locked section no other task changes the
\* vector (an update is applied wholly before or wholly after the selection).
C2_SelectedWasEligible ==
  [][/\ (printPc = "choose" /\ printPc' = "save") =>
          \E i \in 1..Len(rumors) :
            /\ rumors[i].active
            /\ rumors[i].printedCount < rumors[i].maxPrints
            /\ selected' = [rumors[i] EXCEPT !.printedCount = @ + 1]
            /\ Len(rumors') = Len(rumors) /\ rumors'[i] = selected'
     /\ (printPc \in {"scan", "choose", "save", "unlock", "unlock_none"}
           /\ printPc' = printPc) => rumors' = rumors]_vars

\* the second rumor was selected while the first one is inactive
C2_Witness ==
  /\ printPc = "save" /\ Len(rumors) = 2
  /\ ~rumors[1].active /\ selected = rumors[2]

Excess(rumor) == rumor.printedCount > rumor.maxPrints

\* C3 as stated: no rumor's printedCount ever exceeds its maxPrints.
C3_Original == \A i \in 1..Len(rumors) : ~Excess(rumors[i])

\* C3 amended: a rumor's printedCount exceeds its maxPrints only because an
\* update lowered max_prints below the count the rumor already had: a rumor
\* that is over its limit after a step of a registry operation had the same
\* count before the step and was over its limit already or had its limit
\* lowered by the step; no selection, create, delete or reset puts a rumor
\* over its limit.
C3_ExcessOnlyByLoweredLimit ==
  [][ServerStarted =>
       \A i \in 1..Len(rumors') :
         Excess(rumors'[i]) =>
           \E j \in 1..Len(rumors) :
             /\ rumors[j].id = rumors'[i].id
             /\ rumors[j].printedCount = rumors'[i].printedCount
             /\ \/ Excess(rumors[j])
                \/ rumors'[i].maxPrints < rumors[j].maxPrints]_vars

\* a rumor printed twice whose limit an update has lowered to 1
C3_Witness ==
  \E i \in 1..Len(rumors) :
    rumors[i].printedCount = 2 /\ rumors[i].maxPrints = 1

\* the step in which handleCreateRumor of t pushes its rumor
PushStep(t) == webPc[t] = "push" /\ webPc'[t] = "save"

\* C4 as stated: the id of a newly created rumor is greater than every id
\* assigned before, those of deleted rumors included.
C4_Original ==
  [][\A t \in Web :
       PushStep(t) => rumors'[Len(rumors')].id > maxAssigned]_vars

\* C4 amended: the id of a newly created rumor is the largest id in the
\* vector plus 1 (1 for an empty vector), so it is greater than every id in
\* the vector at that time; the id of a deleted rumor is assigned again when
\* no rumor with that id or a greater one is left.
C4_NextIdAboveExisting ==
  [][\A t \in Web :
       PushStep(t) =>
         LET new == rumors'[Len(rumors')]
         IN  /\ rumors' = Append(rumors, new)
             /\ \A i \in 1..Len(rumors) : new.id > rumors[i].id
             /\ IF rumors = <<>> THEN new.id = 1
                ELSE \E i \in 1..Len(rumors) : new.id = rumors[i].id + 1]_vars

\* id 1 has been assigned again after ids 1 and 2 were assigned and deleted
C4_Witness ==
  /\ webPc["web1"] = "save" /\ webRes["web1"] = 201
  /\ Len(rumors) = 1 /\ rumors[1].id = 1 /\ maxAssigned = 2

\* C5: no two rumors of the vector have the same id, under two request
\* contexts whose creates, updates and deletes run in parallel.
C5_UniqueIds ==
  \A i, j \in 1..Len(rumors) : i # j => rumors[i].id # rumors[j].id

\* a second rumor has been created by one context while the other context
\* was refused
C5_Witness ==
  /\ Len(rumors) = 2 /\ maxAssigned = 2
  /\ webPc["web1"] = "unlock" /\ webRes["web1"] = 201
  /\ webPc["web2"] = "respond" /\ webRes["web2"] = 503

\* the snapshot on the file decodes to a vector that holds `rumor`
DurableHas(rumor) ==
  /\ disk.exists /\ disk.valid
  /\ \E i \in 1..Len(disk.doc) : RumorFromJson(disk.doc[i]) = rumor

\* C6 as stated: when pickRandomRumor is about to unlock and return a rumor,
\* the snapshot on the file holds that rumor with its incremented count.
\* pickRandomRumor drops the bool of saveRumorsLocked, so this fails when the
\* open for writing fails or the document is written incomplete.
C6_Original == printPc = "unlock" => DurableHas(selected)

\* the snapshot on the file decodes to the vector
InSync == disk.exists /\ disk.valid /\ Deserialize(disk.doc) = rumors

\* C7 as stated: once a registry operation has changed the vector, the
\* snapshot on the file equals the vector whenever no task is inside a locked
\* section. Every caller drops the bool of saveRumorsLocked and goes on to
\* report success, so this fails after a write that failed or was incomplete.
C7_Original == (mutex = NoTask /\ mutated) => InSync

\* C8: a handler whose lockRumors times out answers 503 without changing the
\* vector, the file or the mutex, and then returns without another attempt.
C8_BusyNoMutation ==
  [][\A t \in Web :
       /\ (webPc[t] = "idle" /\ webRes'[t] = 503) =>
            /\ mutex # NoTask /\ mutex # t /\ mutex' = mutex
            /\ rumors' = rumors /\ disk' = disk
            /\ webPc'[t] = "respond"
       /\ (webPc[t] = "respond" /\ webRes[t] = 503 /\ webPc'[t] # "respond") =>
            /\ webPc'[t] = "idle"
            /\ mutex' = mutex /\ rumors' = rumors /\ disk' = disk]_vars

\* a handler answers 503 while the print task holds the lock on a vector that
\* is not empty
C8_Witness ==
  /\ webPc["web1"] = "respond" /\ webRes["web1"] = 503
  /\ mutex = PrintTask /\ Len(rumors) > 0

NoItem(rumorId) == \A i \in 1..Len(rumors) : rumors[i].id # rumorId

LacksRequired(src) ==
  \E key \in {"title", "text_nl", "text_en", "people", "active"} :
    key \notin DOMAIN src

\* the step of t's locked section rejects the request with status `code`
RejectedWith(t, code) ==
  /\ webRes'[t] = code /\ webPc'[t] = "unlock"
  /\ rumors' = rumors /\ disk' = disk

\* C9: update, delete and reset of an id no rumor has answer 404, a create
\* that lacks one of title, text_nl, text_en, people, active answers 400; the
\* vector and the file are left as they were and the handler then releases
\* the lock before it sends the answer.
C9_RejectedUntouched ==
  [][\A t \in Web :
       /\ webPc[t] = "cs" =>
            /\ \A rumorId \in PathIds :
                 (/\ NoItem(rumorId)
                  /\ \/ \E body \in Bodies :
                          handleUpdateRumor(t, rumorId, body)
                     \/ handleDeleteRumor(t, rumorId)
                     \/ handleResetRumor(t, rumorId))
                   => RejectedWith(t, 404)
            /\ \A body \in Bodies :
                 (LacksRequired(Payloads[body]) /\ handleCreateRumor(t, body))
                   => RejectedWith(t, 400)
       /\ (webPc[t] = "unlock" /\ webRes[t] \in {400, 404}
             /\ webPc'[t] # "unlock") =>
            /\ webPc'[t] = "respond" /\ webRes'[t] = webRes[t]
            /\ mutex = t /\ mutex' = NoTask
            /\ rumors' = rumors /\ disk' = disk]_vars

\* a request for an id no rumor has was answered 404, the lock released and
\* the vector not empty
C9_Witness ==
  /\ webPc["web1"] = "respond" /\ webRes["web1"] = 404
  /\ mutex = NoTask /\ Len(rumors) > 0

\* C10: the step of pickRandomRumor that chooses a rumor adds 1 to that
\* rumor's printedCount and changes nothing else of the vector, no other step
\* of pickRandomRumor changes the vector, and a call that returns false (lock
\* timeout or nothing eligible) leaves the vector and the file as they were.
C10_PickFrame ==
  [][/\ (printPc = "choose" /\ printPc' # "choose") =>
          /\ \E i \in 1..Len(rumors) :
               /\ rumors' = [rumors EXCEPT
                               ![i].printedCount = rumors[i].printedCount + 1]
               /\ selected' = rumors'[i]
          /\ disk' = disk
     /\ (printPc \in {"pick", "scan", "save", "unlock", "unlock_none"}
           /\ printPc' # printPc) => rumors' = rumors
     /\ (printPc \in {"pick", "scan", "unlock_none"} /\ printPc' # printPc) =>
          disk' = disk]_vars

\* the first of two eligible rumors has just been chosen, the second one is
\* untouched
C10_Witness ==
  /\ printPc = "save" /\ Len(rumors) = 2
  /\ selected = rumors[1] /\ selected.printedCount = 1
  /\ rumors[2].active /\ rumors[2].printedCount = 0

RECURSIVE SumFrom(_, _, _)
\* the sum of Term(rs[j]) over the positions j >= i
SumFrom(Term(_), rs, i) ==
  IF i > Len(rs) THEN 0 ELSE Term(rs[i]) + SumFrom(Term, rs, i + 1)

\* printLimit - printCount of an active rumor, as C11 words it
RawBudget(rumor) ==
  IF rumor.active THEN rumor.maxPrints - rumor.printedCount ELSE 0

\* printLimit - printCount of a rumor that is active and below its limit
Budget(rumor) ==
  IF rumor.active /\ rumor.printedCount < rumor.maxPrints
  THEN rumor.maxPrints - rumor.printedCount ELSE 0

\* the step in which pickRandomRumor chooses the rumor it returns
ChooseStep == printPc = "choose" /\ printPc' = "save"

\* C11 as stated: with no create, update or reset in between, a rumor is
\* returned at most (sum over the active rumors of maxPrints - printedCount)
\* times: every selection uses up one unit of that sum, so a rumor is chosen
\* only while the sum is at least 1.
C11_Original ==
  [][ChooseStep => SumFrom(RawBudget, rumors, 1) >= 1]_vars

\* C11 amended: with no create, update or reset in between, a rumor is
\* returned at most (sum over the rumors that are active and below their
\* limit of maxPrints - printedCount) times and every call after that returns
\* false: a selection takes exactly 1 from that sum, no other step raises it,
\* and a scan finds nothing eligible exactly when the sum is 0. An active
\* rumor that is over its limit (after an update lowered max_prints) counts 0,
\* not a negative number.
C11_Exhaustion ==
  [][/\ ChooseStep =>
          /\ SumFrom(Budget, rumors, 1) >= 1
          /\ SumFrom(Budget, rumors', 1) = SumFrom(Budget, rumors, 1) - 1
     /\ SumFrom(Budget, rumors', 1) <= SumFrom(Budget, rumors, 1)
     /\ (printPc = "scan" /\ printPc' # "scan") =>
          (printPc' = "unlock_none" <=> SumFrom(Budget, rumors, 1) = 0)]_vars

\* the only rumor, active with max_prints 1, was returned for the first
\* signal and nothing is eligible for the second
C11_Witness ==
  /\ Len(rumors) = 1 /\ rumors[1].active
  /\ rumors[1].maxPrints = 1 /\ rumors[1].printedCount = 1
  /\ mutated /\ maxAssigned = 1
  /\ sent = 2 /\ queue = 0 /\ printPc = "unlock_none"

\* the fields of a rumor other than printedCount
OtherFields == {"id", "title", "textNl", "textEn", "people", "active",
                "maxPrints"}

\* `new` is `old` with printedCount 0
IsResetOf(old, new) ==
  new.printedCount = 0 /\ \A f \in OtherFields : new[f] = old[f]

\* C12: handleResetAllRumors sets printedCount to 0 on every rumor whatever
\* it was and changes no other field; handleResetRumor on an id a rumor has
\* sets printedCount to 0 on that rumor only and changes no other field of it
\* and no other rumor; neither changes the length or the order of the vector.
C12_ResetFrame ==
  [][\A t \in Web :
       webPc[t] = "cs" =>
         /\ handleResetAllRumors(t) =>
              /\ Len(rumors') = Len(rumors)
              /\ \A i \in 1..Len(rumors) : IsResetOf(rumors[i], rumors'[i])
         /\ \A rumorId \in PathIds :
              (~NoItem(rumorId) /\ handleResetRumor(t, rumorId)) =>
                /\ Len(rumors') = Len(rumors)
                /\ \E k \in 1..Len(rumors) :
                     /\ rumors[k].id = rumorId
                     /\ IsResetOf(rumors[k], rumors'[k])
                     /\ \A i \in 1..Len(rumors) :
                          i # k => rumors'[i] = rumors[i]]_vars

\* the first rumor was reset after it had been selected (the print task still
\* holds its copy with count 1) while the second rumor keeps its count
C12_Witness ==
  /\ Len(rumors) = 2
  /\ printPc = "render" /\ selected.id = rumors[1].id
  /\ selected.printedCount = 1 /\ rumors[1].printedCount = 0
  /\ rumors[2].printedCount = 1
  /\ webPc["web1"] = "save" /\ webRes["web1"] = 204

\* the step is the locked section of a reset request
ResetStep ==
  \E t \in Web :
    /\ webPc[t] = "cs"
    /\ \/ handleResetAllRumors(t)
       \/ \E rumorId \in PathIds : handleResetRumor(t, rumorId)

\* C13: handleUpdateRumor changes neither the id nor the printedCount of its
\* target, whatever keys the body has, and no other rumor; the push_back of
\* a create and the erase of a delete leave every other rumor as it was; and
\* no step other than a reset lowers the printedCount of a rumor.
C13_CountOnlyGrows ==
  [][/\ \A t \in Web :
          /\ (webPc[t] = "cs" /\ rumors' # rumors) =>
               /\ \A rumorId \in PathIds :
                    \/ /\ Len(rumors') = Len(rumors)
                       /\ \A i \in 1..Len(rumors) :
                            /\ rumors'[i].id = rumors[i].id
                            /\ rumors'[i].printedCount = rumors[i].printedCount
                            /\ rumors[i].id # rumorId => rumors'[i] = rumors[i]
                    \/ NoItem(rumorId)
                    \/ \A body \in Bodies : ~handleUpdateRumor(t, rumorId, body)
               /\ \A rumorId \in PathIds :
                    \/ \A i \in 1..Len(rumors') :
                         \E j \in 1..Len(rumors) : rumors[j] = rumors'[i]
                    \/ ~handleDeleteRumor(t, rumorId)
          /\ PushStep(t) =>
               /\ Len(rumors') = Len(rumors) + 1
               /\ \A i \in 1..Len(rumors) : rumors'[i] = rumors[i]
     /\ (rumors' # rumors /\ ~ResetStep) =>
          \A i \in 1..Len(rumors'), j \in 1..Len(rumors) :
            rumors[j].id = rumors'[i].id =>
              rumors'[i].printedCount >= rumors[j].printedCount]_vars

\* an update has switched off a rumor that had been printed once: the rumor
\* keeps its count
C13_Witness ==
  /\ webPc["web1"] = "save" /\ webRes["web1"] = 200
  /\ \E i \in 1..Len(rumors) :
       rumors[i].printedCount = 1 /\ ~rumors[i].active

\* the limit C14 expects for a body: a supplied max_prints below 1 becomes 1,
\* any other supplied value is kept, and without the key `kept` stays
ExpectedLimit(src, kept) ==
  IF "max_prints" \notin DOMAIN src THEN kept
  ELSE IF src.max_prints < 1 THEN 1 ELSE src.max_prints

\* C14: every rumor has maxPrints >= 1; a create stores the supplied
\* max_prints, clamped up to 1 when it is below 1, and the default 5 without
\* the key; an update stores the supplied max_prints the same way.
C14_Original ==
  [][/\ \A i \in 1..Len(rumors') : rumors'[i].maxPrints >= 1
     /\ \A t \in Web :
          webPc[t] = "cs" =>
            /\ \A body \in Bodies :
                 (handleCreateRumor(t, body) /\ webPc'[t] = "push") =>
                   newRumor'[t].maxPrints =
                     ExpectedLimit(Payloads[body], kDefaultMaxPrints)
            /\ \A rumorId \in PathIds, body \in Bodies :
                 (~NoItem(rumorId) /\ handleUpdateRumor(t, rumorId, body)) =>
                   \A i \in 1..Len(rumors) :
                     rumors[i].id = rumorId =>
                       rumors'[i].maxPrints =
                         ExpectedLimit(Payloads[body], rumors[i].maxPrints)]_vars

\* the step is an iteration of reedTask that samples a falling edge
EdgeStep == polls' = polls + 1 /\ lastState = "HIGH" /\ lastState' = "LOW"

\* the step puts a signal into the queue
Enqueues == queue' = queue + 1

\* C15: a falling edge whose signal was enqueued opens a cooldown window of
\* 15000 ms: an edge sampled less than 15000 ms after it puts no signal into
\* the queue, so the two edges produce exactly one signal, and it is
\* discarded rather than deferred: it leaves lastTrigger and the number of
\* sends as they were, and a signal only ever enters the queue, one at a
\* time, in the iteration that samples an edge.
C15_OneSignalPerWindow ==
  [][/\ Enqueues =>
          /\ EdgeStep
          /\ lastAccepted = -1 \/ now' - lastAccepted >= kPrintCooldownMs
     /\ queue' <= queue + 1
     /\ (EdgeStep /\ lastAccepted >= 0
                  /\ now' - lastAccepted < kPrintCooldownMs) =>
          /\ ~Enqueues
          /\ lastTrigger' = lastTrigger /\ sent' = sent
          /\ lastAccepted' = lastAccepted]_vars

\* an edge was enqueued and the edge that followed it within the cooldown
\* was not
C15_Witness ==
  /\ lastAccepted >= 0 /\ prevEdge > lastAccepted
  /\ prevEdge - lastAccepted < kPrintCooldownMs
  /\ ~prevEnq /\ sent = 1 /\ queue = 1 /\ lastTrigger = lastAccepted

\* setup() goes on until the server and the two tasks are started
SetupCompletes == <>(setupPc = "done")

StartupOutcome ==
  /\ loadOk => (/\ mounted /\ disk.exists /\ disk.valid
                /\ rumors = Deserialize(disk.doc))
  /\ ~loadOk => rumors = <<>>
  /\ disk \in InitFiles \cup {DocFile(<<>>)}

C17_Original ==
  [][/\ queue' <= kQueueLength
     /\ (polls' = polls + 1 /\ queue = kQueueLength) => queue' = queue
     /\ lastTrigger' # lastTrigger => Enqueues]_vars

\* C18: an iteration of reedTask that samples a falling edge while the queue
\* has room puts one signal into the queue when no signal has been enqueued
\* yet, or when at least 15000 ms have passed since the latest enqueued one.
C18_Original ==
  [][(/\ EdgeStep
      /\ queue < kQueueLength
      /\ lastAccepted = -1 \/ now' - lastAccepted >= kPrintCooldownMs) =>
       Enqueues]_vars

\* the state of the Dispatch Worker a position of printTask belongs to
WorkerState(pc) ==
  IF pc = "idle" THEN "Idle"
  ELSE IF pc = "render" THEN "Rendering"
  ELSE IF pc = "fallback" THEN "RenderingFallback"
  ELSE "Selecting"

\* C19: the print task goes Idle -> Selecting -> Rendering -> Idle or
\* Idle -> Selecting -> RenderingFallback -> Idle, it renders the rumor it
\* selected, and it turns to the fallback slip only when no rumor of the
\* vector is active and below its limit.
C19_Original ==
  [][/\ WorkerState(printPc') # WorkerState(printPc) =>
          <<WorkerState(printPc), WorkerState(printPc')>> \in
            { <<"Idle", "Selecting">>, <<"Selecting", "Rendering">>,
              <<"Selecting", "RenderingFallback">>, <<"Rendering", "Idle">>,
              <<"RenderingFallback", "Idle">> }
     /\ (printPc # "render" /\ printPc' = "render") =>
          \E i \in 1..Len(rumors) : rumors[i] = selected
     /\ (printPc # "fallback" /\ printPc' = "fallback") =>
          \A i \in 1..Len(rumors) :
            ~(rumors[i].active /\ rumors[i].printedCount < rumors[i].maxPrints)]_vars

\* C20: under fair scheduling of the print task every signal in the queue is
\* taken out (the queue runs empty once the trigger source stops sending),
\* signals are taken one at a time and only while the task waits on the
\* queue, each is followed by exactly one render (the rumor or the fallback
\* slip) before the task waits again, the task always gets back to waiting
\* and never stays in lockRumors.
C20_EverySignalServed ==
  /\ (queue > 0) ~> (queue = 0)
  /\ (printPc # "idle") ~> (printPc = "idle")
  /\ (printPc = "pick") ~> (printPc # "pick")
  /\ [][/\ queue' < queue =>
             (queue' = queue - 1 /\ printPc = "idle" /\ printPc' = "pick")
        /\ (printPc # "idle" /\ printPc' = "idle") =>
             printPc \in {"render", "fallback"}
        /\ (printPc \in {"render", "fallback"} /\ printPc' # printPc) =>
             printPc' = "idle"]_vars

\* both signals have been taken and served with the same rumor, and the
\* print task waits on the empty queue again
C20_Witness ==
  /\ printPc = "idle" /\ queue = 0 /\ sent = MaxTriggers
  /\ \E i \in 1..Len(rumors) : rumors[i].printedCount = 2

\* t's operation on the registry has returned, has not been called, or has
\* not yet called lockRumors
Returned(t) ==
  IF t \in Web THEN webPc[t] = "idle"
  ELSE IF t = PrintTask THEN printPc \in {"idle", "pick", "render", "fallback"}
  ELSE setupPc \in {"boot", "server", "tasks", "done"}

\* C21: a task holds the mutex exactly between its successful lockRumors and
\* the unlockRumors of the path it takes (success, 404, 400 and the
\* none-eligible return alike): the step in which the holder changes away
\* from t is t's one unlock, which leaves the mutex free and t outside its
\* locked section; no operation returns holding the mutex, so the mutex is
\* free whenever no task is inside a locked section; and under fair
\* scheduling the mutex is free again and again, so a held mutex is always
\* eventually released.
C21_LockAlwaysReleased ==
  /\ [](\A t \in Tasks : mutex = t <=> InCritical(t))
  /\ [](\A t \in Tasks : Returned(t) => mutex # t)
  /\ []((\A t \in Tasks : ~InCritical(t)) => mutex = NoTask)
  /\ [][\A t \in Tasks :
          (mutex = t /\ mutex' # t) =>
            /\ mutex' = NoTask
            /\ InCritical(t) /\ ~InCritical(t)']_vars
  /\ []<>(mutex = NoTask)

\* an update of an id no rumor has was answered 404 after its unlock, and the
\* print task has since taken the mutex and found nothing eligible
C21_Witness ==
  /\ webPc["web1"] = "respond" /\ webRes["web1"] = 404
  /\ mutex = PrintTask /\ printPc = "unlock_none"

\* C22: the print task does not hold the mutex while it prints, the rumor
\* slip as the fallback slip; what printRumor prints is the copy `selected`
\* that pickRandomRumor took under the lock, which no step of another task
\* changes while the slip is printed, whatever a handler does to the rumor in
\* the vector in the meantime.
C22_RenderFromCopy ==
  /\ [](printPc \in {"render", "fallback"} => mutex # PrintTask)
  /\ [][printPc = "render" =>
          \/ selected' = selected
          \/ PrintRumor]_vars
  /\ [][(printPc = "unlock" /\ printPc' = "render") =>
          /\ selected' = selected
          /\ \E i \in 1..Len(rumors) : rumors[i] = selected]_vars

\* while the slip of a rumor is printed, an update has taken the mutex and
\* switched that rumor off in the vector; the copy being printed is as it was
C22_Witness ==
  /\ printPc = "render"
  /\ mutex = "web1" /\ webPc["web1"] = "save" /\ webRes["web1"] = 200
  /\ selected.active
  /\ \E i \in 1..Len(rumors) :
       rumors[i].id = selected.id /\ ~rumors[i].active
====
